---- MODULE Spec2Model ----
(***************************************************************************)
(* A model of scripts/get_data.py: return_figures pulls one World Bank     *)
(* indicator per request, flattens the records in place, and builds four   *)
(* plotly figures from the stored row sets.                                *)
(*                                                                         *)
(* Python indexes from 0 and TLA+ sequences from 1: data_frames[k] of the  *)
(* source is data_frames[k + 1] here, and "chart 1..4" are figures[1..4].  *)
(***************************************************************************)
EXTENDS Integers, Sequences, FiniteSets, TLC

VARIABLES
    pc,           \* "idle" | "fetch" | "build" | "done": position in return_figures
    calls,        \* how many calls of return_figures have started
    i,            \* position of the fetch loop in indicators (1-based)
    urls,         \* the urls list: one entry per request issued, in order
    printed,      \* the indicators printed by the except branch, in order
    data,         \* the local variable data: unset, or the (flattened) record list
    data_frames,  \* the data_frames list
    served,       \* what the HTTP collaborator answered in this call, in order
    quota,        \* rows the collaborator may still serve in this call
    result,       \* what the call gave its caller: the figures, or the exception
    first,        \* the result of the first call, once a second call has started
    replay        \* the answers of the first call, once a second call has started

vars == <<pc, calls, i, urls, printed, data, data_frames, served, quota, result, first, replay>>

----------------------------------------------------------------------------
(* Bounds of the model *)

\* rows in one response
MaxRows == 2
\* rows the collaborator serves in one call of return_figures
MaxRecords == 4
\* the same, when return_figures is called twice
MaxRecordsTwice == 3

----------------------------------------------------------------------------
(* Module-level defaults and the collaborator's universe *)

\* the ISO-3 codes of country_default, in order (countries.values())
country_default == <<"CAN", "USA", "BRA", "FRA", "IND", "ITA", "DEU", "GBR", "CHN", "JPN">>

indicators_default ==
    <<"EG.USE.ELEC.KH.PC", "EG.FEC.RNEW.ZS", "EG.USE.PCAP.KG.OE", "EN.ATM.GHGT.KT.CE">>

\* str.lower on the ISO-3 codes
Lower(c) ==
    CASE c = "CAN" -> "can" [] c = "USA" -> "usa" [] c = "BRA" -> "bra"
      [] c = "FRA" -> "fra" [] c = "IND" -> "ind" [] c = "ITA" -> "ita"
      [] c = "DEU" -> "deu" [] c = "GBR" -> "gbr" [] c = "CHN" -> "chn"
      [] c = "JPN" -> "jpn"

\* the ISO codes lower-cased, in order; the source joins them with ";"
country_filter(countries) == [k \in 1..Len(countries) |-> Lower(countries[k])]

\* the request url: its parts that vary (the country filter and the indicator);
\* the date range, page size and format are fixed text
Url(countries, indicator) ==
    [host |-> "http://api.worldbank.org/v2/country/",
     countries |-> country_filter(countries),
     indicator |-> indicator,
     query |-> "?date=1990:2015&per_page=1000&format=json"]

\* the observations the API holds, as <<country, date, value>>: the display
\* name, the year string and the value, JSON null or a number (by its text).
\* The years: one in both year lists, one in neither, one only in chart one's
\* list, one only in the other charts' list.
Observations ==
    { <<"Brazil", "1990", "null">>, <<"Brazil", "1992", "5">>,
      <<"Brazil", "2014", "6">>, <<"Brazil", "2015", "7">>,
      <<"Canada", "1990", "8">>, <<"Canada", "2015", "null">> }

CountryNames == {o[1] : o \in Observations}
Dates == {o[2] : o \in Observations}

\* one observation object of the response, with its nested indicator and country
RawRecord(indicator, o) ==
    [indicator |-> [id |-> indicator, value |-> "indicator name"],
     country |-> [id |-> "iso2", value |-> o[1]],
     date |-> o[2],
     value |-> o[3]]

RawRecords(indicator) == {RawRecord(indicator, o) : o \in Observations}

SeqsUpTo(S, n) == UNION {[1..k -> S] : k \in 0..n}

\* what requests.get(url) ... .json()[1] can do: raise in the request, raise in
\* json() (the body is not JSON), raise in [1] (no element 1), or give the
\* record array
FailureKinds == {"request raises", "not json", "no element 1"}

Min(a, b) == IF a < b THEN a ELSE b

Failures == {[kind |-> k, rows |-> <<>>] : k \in FailureKinds}

RecordArrays(indicator, room) ==
    {[kind |-> "records", rows |-> rows] :
        rows \in SeqsUpTo(RawRecords(indicator), Min(room, MaxRows))}

----------------------------------------------------------------------------
(* The fetch loop, lines 60-80 *)

Unset == [set |-> FALSE, rows |-> <<>>]

\* lines 76-78 on freshly parsed records: each nested object is replaced by
\* its display value
Flatten(rows) ==
    [k \in 1..Len(rows) |->
        [indicator |-> rows[k].indicator.value,
         country |-> rows[k].country.value,
         date |-> rows[k].date,
         value |-> rows[k].value]]

Raise(exc) == [kind |-> "raise", exc |-> exc, figures |-> <<>>]

----------------------------------------------------------------------------
(* The four charts, lines 82-184 *)

\* the year lists of the isin filters
years_one == {"1990", "1995", "2000", "2005", "2010", "2014"}
years_rest == {"1990", "1995", "2000", "2005", "2010", "2015"}

\* the index into data_frames each chart reads (0-based, as in the source)
source_one == 0
source_two == 1
\* chart three reading the row set of its own indicator
source_three_own == 1 + 1
source_three == 1
\* chart four reading the row set before its own
source_four_off_by_one == 3 - 1
source_four == 3

\* the order Python gives the date strings (str comparison), as a table over
\* the strings that occur
DateOrder == <<"1990", "1992", "1995", "2000", "2005", "2010", "2014", "2015">>
DateRank(d) == CHOOSE k \in 1..Len(DateOrder) : DateOrder[k] = d
StrLess(a, b) == DateRank(a) < DateRank(b)

\* pd.DataFrame(records): the value column of a list that holds a number is a
\* float column, in which None is stored as NaN; a column of None only keeps
\* None.  (A list without records gives a frame without columns: see KeyError
\* in BuildError.)
DataFrame(rows) ==
    LET numeric == \E k \in 1..Len(rows) : rows[k].value # "null"
    IN  [k \in 1..Len(rows) |->
            IF numeric /\ rows[k].value = "null"
            THEN [rows[k] EXCEPT !.value = "nan"]
            ELSE rows[k]]

\* a range test in place of membership
IsinRange(df, years) ==
    SelectSeq(df, LAMBDA r : /\ \E y \in years : ~StrLess(r.date, y)
                             /\ \E y \in years : ~StrLess(y, r.date))

\* df[df["date"].isin(years)]: the rows whose date string is in the list, in order
Isin(df, years) == SelectSeq(df, LAMBDA r : r.date \in years)

\* df.sort_values("date"): ascending by the date string.  Rows of equal date
\* keep their order: numpy's quicksort is an insertion sort below 17 elements,
\* which covers every frame of this model.
RECURSIVE SortValues(_)
Insert(sorted, r) ==
    LET after == {k \in 1..Len(sorted) : StrLess(r.date, sorted[k].date)}
        at == IF after = {} THEN Len(sorted) + 1
              ELSE CHOOSE k \in after : \A m \in after : k <= m
    IN  SubSeq(sorted, 1, at - 1) \o <<r>> \o SubSeq(sorted, at, Len(sorted))
SortValues(df) ==
    IF df = <<>> THEN <<>>
    ELSE Insert(SortValues(SubSeq(df, 1, Len(df) - 1)), df[Len(df)])

\* df.country.unique().tolist(): the countries in first-seen order
RECURSIVE Unique(_)
Unique(df) ==
    IF df = <<>> THEN <<>>
    ELSE LET front == Unique(SubSeq(df, 1, Len(df) - 1))
             c == df[Len(df)].country
         IN  IF \E k \in 1..Len(front) : front[k] = c THEN front ELSE Append(front, c)

\* df[df["country"] == country]
OfCountry(df, country) == SelectSeq(df, LAMBDA r : r.country = country)

x_val(df, country) ==
    LET sel == OfCountry(df, country) IN [k \in 1..Len(sel) |-> sel[k].date]
\* the values with the missing ones dropped
y_val_dropna(df, country) ==
    LET sel == SelectSeq(OfCountry(df, country), LAMBDA r : r.value \notin {"null", "nan"})
    IN  [k \in 1..Len(sel) |-> sel[k].value]

y_val(df, country) ==
    LET sel == OfCountry(df, country) IN [k \in 1..Len(sel) |-> sel[k].value]

Scatter(df, country) ==
    [type |-> "scatter", x |-> x_val(df, country), y |-> y_val(df, country),
     mode |-> "lines+markers", name |-> country]
Bar(df, country) ==
    [type |-> "bar", x |-> x_val(df, country), y |-> y_val(df, country),
     name |-> country]

\* data_frames[k] of the source
Frame(frames, k) == frames[k + 1]

df_one(frames) == SortValues(Isin(DataFrame(Frame(frames, source_one)), years_one))
df_two(frames) == SortValues(Isin(DataFrame(Frame(frames, source_two)), years_rest))
df_three(frames) == SortValues(Isin(DataFrame(Frame(frames, source_three)), years_rest))
df_four(frames) == SortValues(Isin(DataFrame(Frame(frames, source_four)), years_rest))

\* the country list every chart iterates
countrylist(frames) == Unique(df_one(frames))

graph_one(frames) ==
    LET df == df_one(frames)  cl == countrylist(frames)
    IN  [k \in 1..Len(cl) |-> Scatter(df, cl[k])]
\* chart two iterating the countries of its own frame
graph_two_own_countries(frames) ==
    LET df == df_two(frames)  cl == Unique(df)
    IN  [k \in 1..Len(cl) |-> Bar(df, cl[k])]

graph_two(frames) ==
    LET df == df_two(frames)  cl == countrylist(frames)
    IN  [k \in 1..Len(cl) |-> Bar(df, cl[k])]
graph_three(frames) ==
    LET df == df_three(frames)  cl == countrylist(frames)
    IN  [k \in 1..Len(cl) |-> Scatter(df, cl[k])]
\* chart four leaving out the countries without rows
graph_four_skip_empty(frames) ==
    LET df == df_four(frames)
        cl == SelectSeq(countrylist(frames), LAMBDA c : OfCountry(df, c) # <<>>)
    IN  [k \in 1..Len(cl) |-> Bar(df, cl[k])]

graph_four(frames) ==
    LET df == df_four(frames)  cl == countrylist(frames)
    IN  [k \in 1..Len(cl) |-> Bar(df, cl[k])]

layout_one ==
    [title |-> "Electric power consumption 1990 to 2015<br>(kWh per capita)",
     xaxis |-> [title |-> "Year"], yaxis |-> [title |-> "KWh (Thousand)"]]
layout_two ==
    [barmode |-> "stack",
     title |-> "% Renewable energy consumption 1990 to 2015",
     xaxis |-> [title |-> "Year"], yaxis |-> [title |-> "% of total final energy"]]
layout_three ==
    [title |-> "Energy use <br> (kg of oil equivalent per capita)",
     xaxis |-> [title |-> "Year"], yaxis |-> [title |-> "Energy (Kg of oil)"]]
layout_four ==
    [barmode |-> "stack",
     title |-> "Total greenhouse gas emissions 1990-2015<br>(kt of CO2 equivalent)",
     xaxis |-> [title |-> "Year"], yaxis |-> [title |-> "CO2 equivalents (kilo tonnes)"]]

\* charts two and three appended in the other order
FiguresSwapped(frames) ==
    << [data |-> graph_one(frames), layout |-> layout_one],
       [data |-> graph_three(frames), layout |-> layout_three],
       [data |-> graph_two(frames), layout |-> layout_two],
       [data |-> graph_four(frames), layout |-> layout_four] >>

\* lines 178-182: the figures list, appended in this order
Figures(frames) ==
    << [data |-> graph_one(frames), layout |-> layout_one],
       [data |-> graph_two(frames), layout |-> layout_two],
       [data |-> graph_three(frames), layout |-> layout_three],
       [data |-> graph_four(frames), layout |-> layout_four] >>

\* the first exception lines 85-160 raise, "" when none: data_frames[k] beyond
\* the list is an IndexError, and ["date"] on the column-less frame of an
\* empty record list is a KeyError
ReadError(frames, k) ==
    IF Len(frames) < k + 1 THEN "IndexError"
    ELSE IF Frame(frames, k) = <<>> THEN "KeyError"
    ELSE ""
BuildError(frames) ==
    IF ReadError(frames, source_one) # "" THEN ReadError(frames, source_one)
    ELSE IF ReadError(frames, source_two) # "" THEN ReadError(frames, source_two)
    ELSE IF ReadError(frames, source_three) # "" THEN ReadError(frames, source_three)
    ELSE ReadError(frames, source_four)

\* lines 82-184 as a whole: the returned list, or the exception
BuildResult(frames) ==
    IF BuildError(frames) # "" THEN Raise(BuildError(frames))
    ELSE [kind |-> "figures", exc |-> "", figures |-> Figures(frames)]

----------------------------------------------------------------------------
(* The state machine *)

countries == country_default
indicators == indicators_default

NoResult == [kind |-> "none", exc |-> "", figures |-> <<>>]

Start ==
    /\ pc = "idle"
    /\ calls = 0
    /\ i = 1
    /\ urls = <<>>
    /\ printed = <<>>
    /\ data = Unset
    /\ data_frames = <<>>
    /\ served = <<>>
    /\ result = NoResult
    /\ first = NoResult
    /\ replay = <<>>

Init == Start /\ quota = MaxRecords

InitTwice == Start /\ quota = MaxRecordsTwice

\* lines 51-56: a call starts with empty lists and data not yet assigned
Enter ==
    /\ calls' = calls + 1
    /\ i' = 1
    /\ urls' = <<>>
    /\ printed' = <<>>
    /\ data' = Unset
    /\ data_frames' = <<>>
    /\ served' = <<>>
    /\ result' = NoResult
    /\ pc' = IF Len(indicators) = 0 THEN "build" ELSE "fetch"

\* the record arrays of a call handed out again as the objects that the call
\* has flattened
AnswersShared(answered) ==
    [k \in 1..Len(answered) |->
        IF answered[k].kind = "records" /\ answered[k].rows # <<>>
        THEN [answered[k] EXCEPT !.kind = "flattened records"]
        ELSE answered[k]]

\* lines 71-72 in a later call: requests.get and resp.json() build their
\* objects anew from the response text, so a call gets the record arrays as
\* the collaborator sent them, not the objects an earlier call flattened
AnswersAgain(answered) == answered

\* the first call of return_figures, with the default arguments
Call ==
    /\ pc = "idle"
    /\ Enter
    /\ UNCHANGED <<quota, first, replay>>

\* a second call with the same arguments.  The collaborator answers as in the
\* first call, except that a record array for data_frames index 2 may have one
\* record more, or its last record less.
CallAgain ==
    /\ pc = "done"
    /\ calls = 1
    /\ Enter
    /\ first' = result
    /\ replay' = AnswersAgain(served)
    /\ quota' = MaxRecordsTwice

\* the record arrays that differ from `answer` in their last record
OtherArrays(indicator, answer) ==
    {[answer EXCEPT !.rows = Append(answer.rows, r)] : r \in RawRecords(indicator)}
    \cup {[answer EXCEPT !.rows = SubSeq(answer.rows, 1, Len(answer.rows) - 1)]}

\* the answers the collaborator may give to request number i of this call:
\* record arrays and failures
RecordAnswers ==
    IF calls = 1 THEN RecordArrays(indicators[i], quota)
    ELSE IF replay[i].kind \in FailureKinds THEN {}
    ELSE IF i = 3 /\ replay[i].kind = "records"
         THEN {replay[i]} \cup OtherArrays(indicators[i], replay[i])
    ELSE {replay[i]}
FailureAnswers ==
    IF calls = 1 THEN Failures
    ELSE IF replay[i].kind \in FailureKinds THEN {replay[i]}
    ELSE {}

\* the exception of lines 76-78 over `rows`, "" when none.  data is unassigned
\* when no request has succeeded yet (UnboundLocalError); records that an
\* earlier iteration already flattened hold strings where the loop indexes
\* ["value"] (TypeError).
FlattenError(d, fresh) ==
    IF ~d.set THEN "UnboundLocalError"
    ELSE IF ~fresh /\ d.rows # <<>> THEN "TypeError"
    ELSE ""

\* lines 76-80 and the loop's next step, after the try statement left `d` in
\* data (fresh: assigned by this iteration)
FlattenAndStore(d, fresh) ==
    IF FlattenError(d, fresh) # ""
    THEN /\ result' = Raise(FlattenError(d, fresh))
         /\ pc' = "done"
         /\ UNCHANGED <<i, data, data_frames>>
    ELSE LET flat == IF fresh THEN Flatten(d.rows) ELSE d.rows
         IN  /\ data' = [set |-> TRUE, rows |-> flat]
             /\ data_frames' = Append(data_frames, flat)
             /\ i' = i + 1
             /\ pc' = IF i = Len(indicators) THEN "build" ELSE "fetch"
             /\ UNCHANGED result

\* one iteration of the loop whose request succeeds: lines 61-72, 76-80
LoadIndicator ==
    /\ pc = "fetch"
    /\ \E resp \in RecordAnswers :
        /\ urls' = Append(urls, Url(countries, indicators[i]))
        /\ served' = Append(served, resp)
        /\ quota' = IF Len(resp.rows) < quota THEN quota - Len(resp.rows) ELSE 0
        /\ FlattenAndStore([set |-> TRUE, rows |-> resp.rows], resp.kind = "records")
    /\ UNCHANGED <<calls, printed, first, replay>>

\* one iteration of the loop whose request fails: lines 61-74, 76-80.  The
\* except branch prints and the iteration goes on with data as it was.
CouldNotLoad ==
    /\ pc = "fetch"
    /\ \E resp \in FailureAnswers :
        /\ urls' = Append(urls, Url(countries, indicators[i]))
        /\ served' = Append(served, resp)
        /\ printed' = Append(printed, indicators[i])
        /\ FlattenAndStore(data, FALSE)
    /\ UNCHANGED <<calls, quota, first, replay>>

\* lines 82-184
BuildFigures ==
    /\ pc = "build"
    /\ result' = BuildResult(data_frames)
    /\ pc' = "done"
    /\ UNCHANGED <<calls, i, urls, printed, data, data_frames, served, quota, first, replay>>

Next == Call \/ LoadIndicator \/ CouldNotLoad \/ BuildFigures

Spec == Init /\ [][Next]_vars

NextTwice == Next \/ CallAgain

SpecTwice == InitTwice /\ [][NextTwice]_vars

----------------------------------------------------------------------------
(* Properties *)

\* the call has returned its list to the caller
Returned == pc = "done" /\ result.kind = "figures"

\* every request of the call was answered with a non-empty record array
AllLoaded ==
    /\ Len(served) = Len(indicators)
    /\ \A k \in 1..Len(served) : served[k].kind = "records" /\ served[k].rows # <<>>

\* the answer each chart is meant to read (1-based: the answers to the requests
\* for indicators 0, 1, 1, 3)
AnswerOf(chart) == served[CASE chart = 1 -> 1 [] chart = 2 -> 2 [] chart = 3 -> 2 [] chart = 4 -> 4]

\* the year strings each chart shows
YearsOf(chart) ==
    IF chart = 1 THEN {"1990", "1995", "2000", "2005", "2010", "2014"}
    ELSE {"1990", "1995", "2000", "2005", "2010", "2015"}

\* the positions of the answer's records that chart `chart` shows for country c
Shown(chart, c) ==
    {j \in 1..Len(AnswerOf(chart).rows) :
        /\ AnswerOf(chart).rows[j].country.value = c
        /\ AnswerOf(chart).rows[j].date \in YearsOf(chart)}

Series(chart) == result.figures[chart].data
Names(chart) == [k \in 1..Len(Series(chart)) |-> Series(chart)[k].name]

FirstSeen(c) ==
    LET rows == AnswerOf(1).rows
        js == Shown(1, c)
        first_j == CHOOSE j \in js : \A m \in js :
                      \/ StrLess(rows[j].date, rows[m].date)
                      \/ rows[j].date = rows[m].date /\ j <= m
    IN  <<DateRank(rows[first_j].date), first_j>>

Before(a, b) == a[1] < b[1] \/ (a[1] = b[1] /\ a[2] < b[2])

\* the countries answer 0 shows
CanonicalSet == {c \in CountryNames : Shown(1, c) # {}}

C3_EmptySeriesForAbsentCountry ==
    Returned =>
        \A c \in 2..4 :
            /\ Len(Series(c)) = Cardinality(CanonicalSet)
            /\ \A k \in 1..Len(Series(c)) :
                 /\ Series(c)[k].name \in CanonicalSet
                 /\ Shown(c, Series(c)[k].name) = {}
                      => Series(c)[k].x = <<>> /\ Series(c)[k].y = <<>>
            /\ \A n \in CanonicalSet : \E k \in 1..Len(Series(c)) : Series(c)[k].name = n

\* C3 witness: a listed country that answers 1 and 3 do not show, and another
\* country that answers 1 and 3 show and answer 0 does not
C3_Witness ==
    /\ Returned
    /\ \E n \in CanonicalSet : Shown(2, n) = {} /\ Shown(4, n) = {}
    /\ \E n \in CountryNames \ CanonicalSet : Shown(2, n) # {} /\ Shown(4, n) # {}

\* C4: every x of chart 1 is one of 1990, 1995, 2000, 2005, 2010, 2014 and
\* every x of charts 2, 3 and 4 one of 1990, 1995, 2000, 2005, 2010, 2015.
C4_ExactYearFilter ==
    Returned =>
        /\ \A k \in 1..Len(Series(1)) : \A j \in 1..Len(Series(1)[k].x) :
             Series(1)[k].x[j] \in {"1990", "1995", "2000", "2005", "2010", "2014"}
        /\ \A c \in 2..4 : \A k \in 1..Len(Series(c)) : \A j \in 1..Len(Series(c)[k].x) :
             Series(c)[k].x[j] \in {"1990", "1995", "2000", "2005", "2010", "2015"}

\* C4 witness: a country that chart 1 shows has a record of 1992 or 2015 in
\* answer 0 and a record of 1992 or 2014 in answer 1
C4_Witness ==
    /\ Returned
    /\ \E n \in CanonicalSet :
         /\ \E j \in 1..Len(served[1].rows) :
              /\ served[1].rows[j].country.value = n
              /\ served[1].rows[j].date \in {"1992", "2015"}
         /\ \E j \in 1..Len(served[2].rows) :
              /\ served[2].rows[j].country.value = n
              /\ served[2].rows[j].date \in {"1992", "2014"}

Keeps(y, v) == IF v = "null" THEN y \in {"null", "nan"} ELSE y = v

\* C9: in every series x and y have the same length, x ascends, and the
\* (x, y) pairs are the (date, value) pairs of the records the chart shows for
\* that country, each once; a null value is kept as a null entry.
C9_SeriesHoldTheShownRecords ==
    Returned =>
        \A c \in 1..4 : \A k \in 1..Len(Series(c)) :
            LET sr == Series(c)[k]
                rows == AnswerOf(c).rows
                js == Shown(c, sr.name)
            IN  /\ Len(sr.x) = Len(sr.y)
                /\ Len(sr.x) = Cardinality(js)
                /\ \A j \in 1..(Len(sr.x) - 1) : ~StrLess(sr.x[j + 1], sr.x[j])
                /\ \A d \in Dates :
                     Cardinality({j \in 1..Len(sr.x) : sr.x[j] = d})
                       = Cardinality({j \in js : rows[j].date = d})
                /\ \A j \in 1..Len(sr.x) :
                     \E m \in js : rows[m].date = sr.x[j] /\ Keeps(sr.y[j], rows[m].value)

\* C9 witness: chart 4 shows two records that came in descending year order,
\* one of them with a null value
C9_Witness ==
    /\ Returned
    /\ Len(served[4].rows) = 2
    /\ StrLess(served[4].rows[2].date, served[4].rows[1].date)
    /\ \E k \in 1..Len(Series(4)) :
         /\ Len(Series(4)[k].x) = 2
         /\ Series(4)[k].y[1] = "nan"

\* C6: a failed request (it raises, its body is not JSON, or the response has
\* no element 1) never makes the call raise once a request succeeded: a call
\* that raises in its fetch loop has had no request answered with records.
C6_NoRaiseAfterASuccess ==
    (pc = "done" /\ result.kind = "raise" /\ result.exc \in {"UnboundLocalError", "TypeError"})
        => \A k \in 1..Len(served) : served[k].kind # "records"

\* C8: the loop makes one pass: when it is over, one request per indicator has
\* been issued, in list order, every failed one has been printed once, and
\* one row set per indicator is stored; a failure ends neither the loop nor
\* the call.
C8_OnePassOverAllIndicators ==
    (pc \in {"build", "done"}) =>
        /\ urls = [k \in 1..Len(indicators) |-> Url(countries, indicators[k])]
        /\ Len(data_frames) = Len(indicators)
        /\ printed = SelectSeq(indicators,
              LAMBDA c : \E k \in 1..Len(served) :
                  indicators[k] = c /\ served[k].kind \in FailureKinds)

====
